---- MODULE Spec2Model ----
(***************************************************************************)
(* Model of OSCR's Combat class (src/OSCR/combat.py): map and difficulty   *)
(* detection (detect_map, check_difficulty_deaths, check_difficulty_damage)*)
(* and the player statistics passes (create_overview,                      *)
(* create_overview_graphs, analyze_players).                               *)
(*                                                                         *)
(* Numbers.  Times are kept in hundredths of a second (0.2 s = 20), hull   *)
(* damage comparisons in tenths (x10), so that all arithmetic is exact     *)
(* integer arithmetic.  A quotient x / y is kept as the pair               *)
(* [num |-> x, den |-> y]; the float 0.0 is [num |-> 0, den |-> 1].        *)
(* Python's None is NONE for string fields and <<>> for tuple fields.      *)
(***************************************************************************)
EXTENDS Integers, Sequences, FiniteSets, TLC

VARIABLES
    lastOp,            \* the operation that ran last ("init" after construction)
    raised,            \* exception that escaped the last operation, or NONE
    \* ---- Combat fields used by detection
    map,               \* self.map
    difficulty,        \* self.difficulty
    detection_info,    \* self.meta['detection_info'] (<<>> while None)
    damage_in_npc,     \* self.damage_in._npc._children
    prev_difficulty,   \* history: self.difficulty when detect_map was entered
    \* ---- arguments and result of the two difficulty checks
    difficulty_data,   \* argument difficulty_data (dict, in insertion order)
    combat_meta,       \* argument combat_meta (dict entity name -> CritterMeta)
    check_result,      \* the DetectionInfo returned (<<>> before a call)
    \* ---- Combat fields and arguments used by the statistics passes
    damage_out_player, \* self.damage_out._player._children
    damage_in_player,  \* self.damage_in._player._children
    heals_out_player,  \* self.heals_out._player._children
    start_time,        \* self.start_time
    end_time,          \* self.end_time
    graph_resolution,  \* self.graph_resolution
    overview_graphs,   \* self.overview_graphs: handle -> damage per bucket
    overview_graph_intervals, \* argument of create_overview: handle -> <<a, b>>
    players,           \* self.players: name + handle -> OverviewTableRow
    \* ---- operands and outcome of a comparison self > other
    gt_self,           \* the combat on the left: its end_time (<<>> while None)
    gt_other,          \* the right operand: its class and, for a Combat, end_time
    gt_outcome         \* what the comparison returned or raised (<<>> before it)

detectVars == <<map, difficulty, detection_info, damage_in_npc, prev_difficulty>>
checkVars == <<difficulty_data, combat_meta, check_result>>
treeVars == <<damage_out_player, damage_in_player, heals_out_player, start_time, end_time>>
graphVars == <<graph_resolution, overview_graphs, overview_graph_intervals>>
statsVars == <<treeVars, graphVars, players>>
gtVars == <<gt_self, gt_other, gt_outcome>>
vars == <<lastOp, raised, detectVars, checkVars, statsVars, gtVars>>

NONE == "None"

(***************************************************************************)
(* Bounds of the model.                                                    *)
(***************************************************************************)
MaxNpc == 3          \* non-player entities in the damage-received tree
MaxCount == 3        \* largest CritterMeta.count handed to the death check
MaxSamples == 2      \* largest number of hull samples handed to the damage check

(***************************************************************************)
(* Generic helpers.                                                        *)
(***************************************************************************)
Range(s) == {s[i] : i \in 1..Len(s)}

\* all sequences over S of length lo..hi
SeqsOf(S, lo, hi) == UNION {[1..n -> S] : n \in lo..hi}

\* all enumeration orders of a finite set
Orders(S) == {o \in [1..Cardinality(S) -> S] : Range(o) = S}

RECURSIVE Insert(_, _)
Insert(x, s) ==
    IF s = <<>> THEN <<x>>
    ELSE IF x <= Head(s) THEN <<x>> \o s
    ELSE <<Head(s)>> \o Insert(x, Tail(s))

RECURSIVE Sorted(_)
Sorted(s) == IF s = <<>> THEN <<>> ELSE Insert(Head(s), Sorted(Tail(s)))

(***************************************************************************)
(* datamodels.DetectionInfo and datamodels.CritterMeta.                    *)
(***************************************************************************)
\* DetectionInfo(success, type, identificators, target_value, retrieved_value,
\*               step, map, difficulty)
DetectionInfo(success, type, identificators, target, retrieved, step, m, d) ==
    [success |-> success, type |-> type, identificators |-> identificators,
     target_value |-> target, retrieved_value |-> retrieved, step |-> step,
     map |-> m, difficulty |-> d]

\* defaults of the constructor's optional parameters
DefaultType == ""
DefaultIdentificators == <<>>
DefaultValue == <<>>

\* truth value of a DetectionInfo in `if detection_meta := ...`
DetectionInfoBool(info) == info.success

CritterMeta(name, count, hull_values) ==
    [name |-> name, count |-> count, hull_values |-> hull_values]

add_critter(meta, hull_value) ==
    [meta EXCEPT !.count = @ + 1, !.hull_values = Append(@, hull_value)]

\* utilities.get_entity_name: strips the instance part of a raw entity id
get_entity_name(entity_id) == entity_id.name

(***************************************************************************)
(* check_difficulty_deaths (combat.py 13-34).  difficulty_data is a        *)
(* sequence of <<entity_name, required_death_count>> in insertion order;   *)
(* combat_meta a function from the entity names present to CritterMeta.    *)
(***************************************************************************)
DictKeys(data) == [i \in 1..Len(data) |-> data[i][1]]

DeathsValidMutExact(required_death_count, count) ==
    required_death_count = count

\* lines 26-29
DeathsValid(required_death_count, count) ==
    IF required_death_count > 0
    THEN required_death_count = count
    ELSE count # 0

RECURSIVE DeathsScan(_, _, _)
DeathsScan(data, i, meta) ==
    IF i > Len(data)
    THEN DetectionInfo(TRUE, "difficulty", DictKeys(data), DefaultValue,
                       DefaultValue, "deaths", NONE, NONE)
    ELSE LET entity_name == data[i][1]
             required_death_count == data[i][2]
         IN IF entity_name \notin DOMAIN meta
            THEN DetectionInfo(FALSE, "difficulty", <<entity_name>>, DefaultValue,
                               DefaultValue, "existence", NONE, NONE)
            ELSE IF ~DeathsValid(required_death_count, meta[entity_name].count)
            THEN DetectionInfo(FALSE, "difficulty", <<entity_name>>,
                               <<required_death_count>>,
                               <<meta[entity_name].count>>, "deaths", NONE, NONE)
            ELSE DeathsScan(data, i + 1, meta)

check_difficulty_deaths(data, meta) == DeathsScan(data, 1, meta)

(***************************************************************************)
(* check_difficulty_damage (combat.py 37-58).                              *)
(***************************************************************************)
\* numpy.percentile(values, 50), times 10: the middle sample of the sorted
\* samples, or the mean of the two middle ones (linear interpolation)
Median10(values) ==
    LET s == Sorted(values)
        n == Len(s)
    IN IF n % 2 = 1 THEN 10 * s[(n + 1) \div 2]
       ELSE 5 * (s[n \div 2] + s[n \div 2 + 1])

\* var = 0.20; low = hull_value * (1 - var), times 10
Low10(hull_value) == hull_value * (10 - 2)

DamageValidMutNonStrict(low, med) == low <= med

\* line 55: valid = low < med
DamageValid(low, med) == low < med

RECURSIVE DamageScan(_, _, _)
DamageScan(data, i, meta) ==
    IF i > Len(data)
    THEN DetectionInfo(TRUE, "difficulty", DictKeys(data), DefaultValue,
                       DefaultValue, "damage", NONE, NONE)
    ELSE LET entity_name == data[i][1]
             hull_value == data[i][2]
         IN IF entity_name \notin DOMAIN meta
            THEN DetectionInfo(FALSE, "difficulty", DefaultIdentificators,
                               DefaultValue, DefaultValue, "damage", NONE, NONE)
            ELSE LET med == Median10(meta[entity_name].hull_values)
                     low == Low10(hull_value)
                 IN IF ~DamageValid(low, med)
                    THEN DetectionInfo(FALSE, "difficulty", <<entity_name>>,
                                       <<low>>, <<med>>, "damage", NONE, NONE)
                    ELSE DamageScan(data, i + 1, meta)

check_difficulty_damage(data, meta) == DamageScan(data, 1, meta)

(***************************************************************************)
(* Reference tables of detection.Detection, reduced to a few entries.      *)
(* Dicts that the code iterates are sequences of <<key, value>> in         *)
(* insertion order.                                                        *)
(***************************************************************************)
\* Detection.MAP_IDENTIFIERS_EXISTENCE: entity name -> map and difficulty
MAP_IDENTIFIERS_EXISTENCE ==
    ("ida" :> [map |-> "MapA", difficulty |-> "Any"]) @@
    ("idb" :> [map |-> "MapB", difficulty |-> "Any"]) @@
    ("idc" :> [map |-> "MapA", difficulty |-> "Any"]) @@
    ("fix" :> [map |-> "MapA", difficulty |-> "Elite"])

\* Detection.MAP_DIFFICULTY_ENTITY_DEATH_COUNTS: map -> difficulty -> entity -> count
MAP_DIFFICULTY_ENTITY_DEATH_COUNTS ==
    ("MapA" :> << <<"Normal", << <<"mob", 1>> >> >>,
                  <<"Advanced", << <<"mob", 2>> >> >>,
                  <<"Elite", << <<"ida", 0>>, <<"mob", 2>> >> >> >>)

\* Detection.MAP_DIFFICULTY_ENTITY_HULL_COUNTS: map -> difficulty -> entity -> hull
MAP_DIFFICULTY_ENTITY_HULL_COUNTS ==
    ("MapA" :> << <<"Normal", << <<"ida", 5>> >> >>,
                  <<"Elite", << <<"ida", 10>> >> >> >>)

\* dict.get(key, {}).items()
ItemsOrEmpty(table, key) == IF key \in DOMAIN table THEN table[key] ELSE <<>>

\* canonical names and hull damage of the entities a log can hold
EntityNames == {"ida", "idb", "idc", "fix", "mob"}
HullDamages == {4, 9}

\* results of Detection.detect_line on the last log line
DetectLineResults ==
    {[map |-> "Combat", difficulty |-> NONE],
     [map |-> "MapA", difficulty |-> NONE],
     [map |-> "MapA", difficulty |-> "Normal"]}

(***************************************************************************)
(* Combat.detect_map (combat.py 336-385).                                  *)
(***************************************************************************)
\* lines 345-351: the local dict critters
RECURSIVE BuildCritters(_, _)
BuildCritters(children, critters) ==
    IF children = <<>> THEN critters
    ELSE LET entity == Head(children)
             entity_name == get_entity_name(entity.id)
         IN BuildCritters(Tail(children),
                IF entity_name \in DOMAIN critters
                THEN [critters EXCEPT ![entity_name] = add_critter(@, entity.hull)]
                ELSE critters @@
                     (entity_name :> CritterMeta(entity_name, 1, <<entity.hull>>)))

Critters(children) == BuildCritters(children, <<>>)

\* line 354: critters.keys() & Detection.MAP_IDENTIFIERS_EXISTENCE.keys()
MapIdentificators(children) ==
    DOMAIN Critters(children) \cap DOMAIN MAP_IDENTIFIERS_EXISTENCE

ExistenceFailedMutKeepsMap ==
    [map |-> "", difficulty |-> NONE,
     info |-> << DetectionInfo(FALSE, DefaultType, DefaultIdentificators,
                               DefaultValue, DefaultValue, "existence", NONE, NONE) >>]

\* lines 355-359: no identifying entity
ExistenceFailed ==
    [map |-> "Combat", difficulty |-> NONE,
     info |-> << DetectionInfo(FALSE, DefaultType, DefaultIdentificators,
                               DefaultValue, DefaultValue, "existence", NONE, NONE) >>]

FixedDifficultyMutMapOnly(identificator) ==
    LET map_data == MAP_IDENTIFIERS_EXISTENCE[identificator]
    IN [map |-> map_data.map, difficulty |-> map_data.difficulty,
        info |-> << DetectionInfo(TRUE, "map", <<identificator>>, DefaultValue,
                                  DefaultValue, "existence", map_data.map, NONE) >>]

\* lines 364-369: an identifying entity with a fixed difficulty
FixedDifficulty(identificator) ==
    LET map_data == MAP_IDENTIFIERS_EXISTENCE[identificator]
    IN [map |-> map_data.map, difficulty |-> map_data.difficulty,
        info |-> << DetectionInfo(TRUE, "both", <<identificator>>, DefaultValue,
                                  DefaultValue, "existence", map_data.map,
                                  map_data.difficulty) >>]

\* lines 374-378 and 380-384: one stage over the levels of a table entry;
\* check is "deaths" or "damage"
RunCheck(check, meta, critters) ==
    IF check = "deaths" THEN check_difficulty_deaths(meta, critters)
    ELSE check_difficulty_damage(meta, critters)

RECURSIVE StageMutAlwaysAssigns(_, _, _, _, _)
StageMutAlwaysAssigns(check, levels, critters, diff, info) ==
    IF levels = <<>> THEN [difficulty |-> diff, info |-> info]
    ELSE LET diffic == Head(levels)[1]
             detection_meta == RunCheck(check, Head(levels)[2], critters)
         IN StageMutAlwaysAssigns(check, Tail(levels), critters, diffic,
                Append(info, [detection_meta EXCEPT !.difficulty = diffic]))

RECURSIVE Stage(_, _, _, _, _)
Stage(check, levels, critters, diff, info) ==
    IF levels = <<>> THEN [difficulty |-> diff, info |-> info]
    ELSE LET diffic == Head(levels)[1]
             meta == Head(levels)[2]
             detection_meta == RunCheck(check, meta, critters)
         IN Stage(check, Tail(levels), critters,
                  IF DetectionInfoBool(detection_meta) THEN diffic ELSE diff,
                  Append(info, [detection_meta EXCEPT !.difficulty = diffic]))

\* lines 371-385: after the scan found no fixed difficulty
DifficultyStages(critters, m, identificator, diff) ==
    LET info0 == << DetectionInfo(TRUE, "map", <<identificator>>, DefaultValue,
                                  DefaultValue, "existence", m, NONE) >>
        deaths == Stage("deaths", ItemsOrEmpty(MAP_DIFFICULTY_ENTITY_DEATH_COUNTS, m),
                        critters, diff, info0)
        damage == Stage("damage", ItemsOrEmpty(MAP_DIFFICULTY_ENTITY_HULL_COUNTS, m),
                        critters, deaths.difficulty, deaths.info)
    IN [map |-> m, difficulty |-> damage.difficulty, info |-> damage.info]

\* lines 361-370: the scan of map_identificators in enumeration order `order`
RECURSIVE ScanIdentificators(_, _, _, _)
ScanIdentificators(order, i, critters, diff) ==
    LET identificator == order[i]
        map_data == MAP_IDENTIFIERS_EXISTENCE[identificator]
    IN IF map_data.difficulty # "Any" THEN FixedDifficulty(identificator)
       ELSE IF i = Len(order)
       THEN DifficultyStages(critters, map_data.map, identificator, diff)
       ELSE ScanIdentificators(order, i + 1, critters, diff)

\* the whole of detect_map: `order` is the order in which the set
\* map_identificators is enumerated, diff is self.difficulty on entry
DetectOutcome(children, order, diff) ==
    IF Len(order) < 1 THEN ExistenceFailed
    ELSE ScanIdentificators(order, 1, Critters(children), diff)

\* The set of line 354 is a Python set of str: its enumeration order is
\* not fixed by the program, so every order is a possible one.
DetectMap ==
    /\ \E order \in Orders(MapIdentificators(damage_in_npc)) :
          LET out == DetectOutcome(damage_in_npc, order, difficulty)
          IN /\ map' = out.map
             /\ difficulty' = out.difficulty
             /\ detection_info' = out.info
    /\ prev_difficulty' = difficulty
    /\ lastOp' = "detect_map"
    /\ UNCHANGED <<raised, damage_in_npc, checkVars, statsVars, gtVars>>

\* Combat.analyze_last_line (combat.py 230-246)
AnalyzeLastLine ==
    /\ ~(map # NONE /\ map # "Combat" /\ difficulty # NONE)
    /\ \E line \in DetectLineResults :
          /\ map' = IF map = NONE \/ map = "Combat" THEN line.map ELSE map
          /\ difficulty' = IF difficulty = NONE THEN line.difficulty ELSE difficulty
    /\ lastOp' = "analyze_last_line"
    /\ UNCHANGED <<raised, detection_info, damage_in_npc, prev_difficulty, checkVars, statsVars, gtVars>>

(***************************************************************************)
(* Initial states.  Combat.__init__ (combat.py 67-89) sets the fields;     *)
(* the trees are those a parser has built for the combat.                  *)
(***************************************************************************)
\* entity i of the tree carries instance id i
NpcTrees ==
    UNION {{[i \in 1..n |-> [id |-> [name |-> names[i], inst |-> i], hull |-> hulls[i]]] :
              names \in [1..n -> EntityNames], hulls \in [1..n -> HullDamages]} :
           n \in 0..MaxNpc}

InitCombat ==
    /\ lastOp = "init"
    /\ raised = NONE
    /\ map = NONE
    /\ difficulty = NONE
    /\ detection_info = <<>>
    /\ prev_difficulty = NONE

InitNoCompare ==
    /\ gt_self = <<>>
    /\ gt_other = <<>>
    /\ gt_outcome = <<>>

InitNoCheck ==
    /\ difficulty_data = <<>>
    /\ combat_meta = <<>>
    /\ check_result = <<>>

\* graph_resolution: float = 0.2
DefaultGraphResolution == 20

InitNoTrees ==
    /\ damage_out_player = <<>>
    /\ damage_in_player = <<>>
    /\ heals_out_player = <<>>
    /\ start_time = 0
    /\ end_time = 0

InitNoStats ==
    /\ InitNoTrees
    /\ graph_resolution = DefaultGraphResolution
    /\ overview_graphs = <<>>
    /\ overview_graph_intervals = <<>>
    /\ players = <<>>

Init ==
    /\ InitCombat
    /\ InitNoCompare
    /\ InitNoCheck
    /\ InitNoStats
    /\ damage_in_npc \in NpcTrees

Next == AnalyzeLastLine \/ DetectMap

Spec == Init /\ [][Next]_vars

(***************************************************************************)
(* The two difficulty checks as functions of their arguments: the initial  *)
(* states draw difficulty_data and combat_meta, the actions apply the      *)
(* checks.                                                                 *)
(***************************************************************************)
CheckEntities == {"ida", "mob"}
RequiredCounts == 0..(MaxCount - 1)
HullThresholds == {5, 10}
HullSamples == {4, 8, 9}

\* dicts over CheckEntities with values in V, as item sequences
DictsOver(V) ==
    {d \in SeqsOf(CheckEntities \X V, 0, Cardinality(CheckEntities)) :
        \A i, j \in 1..Len(d) : i # j => d[i][1] # d[j][1]}

CountMetas == [e \in CheckEntities |-> {CritterMeta(e, c, <<4>>) : c \in 0..MaxCount}]
SampleMetas ==
    [e \in CheckEntities |->
        {CritterMeta(e, Len(h), h) : h \in SeqsOf(HullSamples, 1, MaxSamples)}]

\* dicts entity name -> CritterMeta, the metadata of entity e drawn from M[e]
MetasOver(M) ==
    UNION {{m \in [D -> UNION {M[e] : e \in D}] : \A e \in D : m[e] \in M[e]} :
           D \in SUBSET CheckEntities}

InitCheck ==
    /\ InitCombat
    /\ InitNoCompare
    /\ InitNoStats
    /\ damage_in_npc = <<>>
    /\ check_result = <<>>
    /\ \/ /\ difficulty_data \in DictsOver(RequiredCounts)
          /\ combat_meta \in MetasOver(CountMetas)
       \/ /\ difficulty_data \in DictsOver(HullThresholds)
          /\ combat_meta \in MetasOver(SampleMetas)

CheckDeaths ==
    /\ check_result' = check_difficulty_deaths(difficulty_data, combat_meta)
    /\ lastOp' = "check_difficulty_deaths"
    /\ UNCHANGED <<raised, detectVars, difficulty_data, combat_meta, statsVars, gtVars>>

CheckDamage ==
    /\ check_result' = check_difficulty_damage(difficulty_data, combat_meta)
    /\ lastOp' = "check_difficulty_damage"
    /\ UNCHANGED <<raised, detectVars, difficulty_data, combat_meta, statsVars, gtVars>>

NextCheck == CheckDeaths \/ CheckDamage

SpecCheck == InitCheck /\ [][NextCheck]_vars

(***************************************************************************)
(* Properties of detection.                                                *)
(***************************************************************************)
\* canonical names of the entities in the damage-received tree
ObservedNames == {damage_in_npc[i].id.name : i \in 1..Len(damage_in_npc)}

FixedNames ==
    {e \in DOMAIN MAP_IDENTIFIERS_EXISTENCE :
        MAP_IDENTIFIERS_EXISTENCE[e].difficulty # "Any"}

\* C1: when no observed canonical entity name is a key of the existence
\* table, detect_map ends with map "Combat", difficulty None and a detection
\* info of exactly one failed result of step "existence".
C1_NoIdentifierYieldsCombat ==
    (lastOp = "detect_map" /\ ObservedNames \cap DOMAIN MAP_IDENTIFIERS_EXISTENCE = {})
    => /\ map = "Combat"
       /\ difficulty = NONE
       /\ Len(detection_info) = 1
       /\ detection_info[1].success = FALSE
       /\ detection_info[1].step = "existence"

C1_Witness ==
    /\ lastOp = "detect_map"
    /\ damage_in_npc # <<>>
    /\ ObservedNames \cap DOMAIN MAP_IDENTIFIERS_EXISTENCE = {}
    /\ prev_difficulty # NONE
    /\ map = "Combat"

\* C2: when a matched existence entry has a fixed difficulty, detect_map
\* returns the map and difficulty of such an entry with exactly one
\* successful result of category "both", and no death or hull check is run
\* (no further result is recorded).
C2_FixedDifficultyShortCircuits ==
    (lastOp = "detect_map" /\ ObservedNames \cap FixedNames # {})
    => /\ \E e \in ObservedNames \cap FixedNames :
             /\ map = MAP_IDENTIFIERS_EXISTENCE[e].map
             /\ difficulty = MAP_IDENTIFIERS_EXISTENCE[e].difficulty
             /\ detection_info[1].identificators = <<e>>
             /\ detection_info[1].map = map
             /\ detection_info[1].difficulty = difficulty
       /\ Len(detection_info) = 1
       /\ detection_info[1].success = TRUE
       /\ detection_info[1].type = "both"
       /\ detection_info[1].step = "existence"

C2_Witness ==
    /\ lastOp = "detect_map"
    /\ {"fix", "ida", "mob"} \subseteq ObservedNames
    /\ difficulty = "Elite"
    /\ Len(detection_info) = 1

\* C5: the outcome of detect_map (map, difficulty, detection info) is the
\* same under every order in which the set of candidate entities can be
\* enumerated, so that two runs on the same tree agree.
C5_DetectOrderIndependent ==
    lastOp = "detect_map"
    => \A order \in Orders(MapIdentificators(damage_in_npc)) :
          LET out == DetectOutcome(damage_in_npc, order, prev_difficulty)
          IN /\ out.map = map
             /\ out.difficulty = difficulty
             /\ out.info = detection_info

(***************************************************************************)
(* Properties of the difficulty checks.                                    *)
(***************************************************************************)
EntryPresent(i) == difficulty_data[i][1] \in DOMAIN combat_meta

DeathEntryOk(i) ==
    /\ EntryPresent(i)
    /\ LET r == difficulty_data[i][2]
           c == combat_meta[difficulty_data[i][1]].count
       IN (r > 0 => c = r) /\ (r = 0 => c # 0)

\* C3: check_difficulty_deaths succeeds iff every required entity is present
\* and its count equals the required count r when r > 0, or is nonzero when
\* r = 0; when the scan meets a missing entity (all entities before it having
\* passed) the result is a failure of step "existence" naming that entity,
\* whatever the remaining entities are.
C3_DeathCheck ==
    lastOp = "check_difficulty_deaths"
    => /\ check_result.success = (\A i \in 1..Len(difficulty_data) : DeathEntryOk(i))
       /\ check_result.step \in {"deaths", "existence"}
       /\ \A i \in 1..Len(difficulty_data) :
             (~EntryPresent(i) /\ \A j \in 1..(i - 1) : DeathEntryOk(j))
             => /\ check_result.success = FALSE
                /\ check_result.step = "existence"
                /\ check_result.identificators = <<difficulty_data[i][1]>>

C3_Witness ==
    /\ lastOp = "check_difficulty_deaths"
    /\ Len(difficulty_data) = 2
    /\ difficulty_data[1][2] = 0
    /\ difficulty_data[2][2] > 0
    /\ check_result.success = TRUE

\* C4: check_difficulty_damage succeeds iff every required entity is present
\* and the median of its hull samples is strictly greater than 0.8 times its
\* threshold; a median of exactly 0.8 times the threshold fails.
C4_DamageCheck ==
    lastOp = "check_difficulty_damage"
    => check_result.success =
          (\A i \in 1..Len(difficulty_data) :
              /\ EntryPresent(i)
              /\ Median10(combat_meta[difficulty_data[i][1]].hull_values)
                    > 8 * difficulty_data[i][2])

C4_Witness ==
    /\ lastOp = "check_difficulty_damage"
    /\ Len(difficulty_data) = 1
    /\ EntryPresent(1)
    /\ Len(combat_meta[difficulty_data[1][1]].hull_values) = 2
    /\ Median10(combat_meta[difficulty_data[1][1]].hull_values)
          = 8 * difficulty_data[1][2]
    /\ check_result.success = FALSE

(***************************************************************************)
(* Player statistics.  An OverviewTableRow is a record; of the fields the  *)
(* passes write, those that are plain copies of a tree column and are not  *)
(* read again in this file's code (debuff, max_one_hit, crit and heal-crit *)
(* numbers, deaths, hull and shield damage taken) are left out.            *)
(* events is <<>> for None and <<list>> for a list of event names.         *)
(***************************************************************************)
ZeroFloat == [num |-> 0, den |-> 1]
Quotient(x, y) == [num |-> x, den |-> y]

\* datamodels.OverviewTableRow(name, handle)
OverviewTableRow(name, handle) ==
    [name |-> name, handle |-> handle,
     total_damage |-> 0, combat_time |-> 0, combat_time_share |-> ZeroFloat,
     DPS |-> ZeroFloat, total_damage_taken |-> 0, attacks_in_num |-> 0,
     total_heals |-> 0,
     heal_share |-> ZeroFloat, attacks_in_share |-> ZeroFloat,
     taken_damage_share |-> ZeroFloat, damage_share |-> ZeroFloat,
     combat_interval |-> <<>>, events |-> <<>>, build |-> NONE,
     graph_time |-> <<>>, DMG_graph_data |-> <<>>, DPS_graph_data |-> <<>>]

\* Detection.BUILD_DETECTION_ABILITIES: ability-name marker -> build label
BUILD_DETECTION_ABILITIES ==
    << <<"Beam", "Energy">>, <<"Torp", "Kinetic">> >>

\* `k in event` on str
Contains(k, event) ==
    \E i \in 1..(Len(event) - Len(k) + 1) : SubSeq(event, i, i + Len(k) - 1) = k

RECURSIVE SumUpTo(_, _)
SumUpTo(s, i) == IF i = 0 THEN 0 ELSE SumUpTo(s, i - 1) + s[i]

\* numpy cumsum
CumSum(s) == [i \in 1..Len(s) |-> SumUpTo(s, i)]

\* graph[lo:hi] for 0 <= lo
Slice(s, lo, hi) == SubSeq(s, lo + 1, IF hi < Len(s) THEN hi ELSE Len(s))

\* numpy.linspace(first, last, n); exact where (last - first) is a multiple
\* of n - 1, which holds whenever the slice has all of its b - a + 1 points
Linspace(first, last, n) ==
    [i \in 1..n |-> IF n = 1 THEN first
                    ELSE first + ((i - 1) * (last - first)) \div (n - 1)]

\* round(x, 1) on hundredths: to the nearest tenth, a tie to the even tenth
Round1(x) ==
    LET r == x % 10
        down == x - r
    IN IF r < 5 THEN down
       ELSE IF r > 5 THEN down + 10
       ELSE IF (down \div 10) % 2 = 0 THEN down ELSE down + 10

(***************************************************************************)
(* Combat.create_overview_graphs (combat.py 110-125).                      *)
(***************************************************************************)
GraphSliceMutExclusive(graph, combat_interval) ==
    Slice(graph, combat_interval[1], combat_interval[2])

\* line 120: graph[combat_interval[0]:combat_interval[1] + 1]
GraphSlice(graph, combat_interval) ==
    Slice(graph, combat_interval[1], combat_interval[2] + 1)

create_overview_graphs(player, combat_interval) ==
    LET graph == overview_graphs[player.handle]
        dmg_graph == GraphSlice(graph, combat_interval)
        first_graph_time == graph_resolution * (combat_interval[1] + 1)
        last_graph_time == graph_resolution * (combat_interval[2] + 1)
        graph_time == Linspace(first_graph_time, last_graph_time, Len(dmg_graph))
        combat_time_array ==
            [i \in 1..Len(graph_time) |->
                graph_time[i] - graph_resolution * combat_interval[1]]
        cumsum == CumSum(dmg_graph)
    IN [player EXCEPT
           !.DMG_graph_data = dmg_graph,
           !.graph_time = graph_time,
           !.DPS_graph_data =
               [i \in 1..Len(dmg_graph) |-> Quotient(cumsum[i], combat_time_array[i])]]

CreateOverviewGraphs ==
    /\ \E key \in DOMAIN players :
          /\ players[key].handle \in DOMAIN overview_graph_intervals
          /\ players' = [players EXCEPT ![key] =
                create_overview_graphs(@, overview_graph_intervals[@.handle])]
    /\ lastOp' = "create_overview_graphs"
    /\ raised' = NONE
    /\ UNCHANGED <<detectVars, checkVars, treeVars, graphVars, gtVars>>

(***************************************************************************)
(* Combat.create_overview (combat.py 127-211).  A tree row is a record of  *)
(* the columns read: id (column 0), total (column 2), attacks (column 9 of *)
(* the damage-received tree), combat_duration (column 19).                 *)
(***************************************************************************)
\* Combat.get_player_item (lines 222-228): <<>> for None, else <<row>>
get_player_item(rows, name_and_handle) ==
    LET hits == {i \in 1..Len(rows) : rows[i].id = name_and_handle}
    IN IF hits = {} THEN <<>>
       ELSE << rows[CHOOSE i \in hits : \A j \in hits : i <= j] >>

SkipsPlayerMutZeroOnly(player_combat_duration) == player_combat_duration = 0

\* line 146
SkipsPlayer(player_combat_duration) == player_combat_duration <= 0

ShareFractionMutNoFallback(value, total) == Quotient(value, total)

\* lines 196-211: value / total, 0.0 on ZeroDivisionError
ShareFraction(value, total) ==
    IF total = 0 THEN ZeroFloat ELSE Quotient(value, total)

ZeroTotals == [damage_out |-> 0, attacks_in |-> 0, damage_in |-> 0, heals |-> 0]

\* lines 148-193: the row of one player, and the totals it adds to
OverviewPlayer(dmg_out_data, combat_duration) ==
    LET id == dmg_out_data.id
        p0 == [OverviewTableRow(id[1], id[2]) EXCEPT
                  !.combat_time = dmg_out_data.combat_duration,
                  !.combat_time_share =
                      Quotient(dmg_out_data.combat_duration, combat_duration),
                  !.total_damage = dmg_out_data.total]
        dmg_in_data == get_player_item(damage_in_player, id)
        p1 == IF dmg_in_data # <<>>
              THEN [p0 EXCEPT !.total_damage_taken = dmg_in_data[1].total,
                              !.attacks_in_num = dmg_in_data[1].attacks]
              ELSE p0
        heal_out_data == get_player_item(heals_out_player, id)
        p2 == IF heal_out_data # <<>>
              THEN [p1 EXCEPT !.total_heals = heal_out_data[1].total]
              ELSE p1
    IN IF p2.handle \in DOMAIN overview_graph_intervals
       THEN create_overview_graphs(p2, overview_graph_intervals[p2.handle])
       ELSE p2

\* lines 143-193: the loop over the player rows of the damage-dealt tree;
\* the division of line 152 raises ZeroDivisionError when the combat lasted 0 s
RECURSIVE OverviewRows(_, _, _, _)
OverviewRows(i, combat_duration, ps, totals) ==
    IF i > Len(damage_out_player)
    THEN [players |-> ps, totals |-> totals, raised |-> NONE]
    ELSE LET dmg_out_data == damage_out_player[i]
         IN IF SkipsPlayer(dmg_out_data.combat_duration)
            THEN OverviewRows(i + 1, combat_duration, ps, totals)
            ELSE IF combat_duration = 0
            THEN [players |-> ps, totals |-> totals, raised |-> "ZeroDivisionError"]
            ELSE LET player == OverviewPlayer(dmg_out_data, combat_duration)
                     key == dmg_out_data.id[1] \o dmg_out_data.id[2]
                 IN OverviewRows(i + 1, combat_duration,
                       (key :> player) @@ ps,
                       [damage_out |-> totals.damage_out + player.total_damage,
                        attacks_in |-> totals.attacks_in + player.attacks_in_num,
                        damage_in |-> totals.damage_in + player.total_damage_taken,
                        heals |-> totals.heals + player.total_heals])

\* lines 195-211
OverviewShares(ps, totals) ==
    [key \in DOMAIN ps |->
        [ps[key] EXCEPT
            !.heal_share = ShareFraction(ps[key].total_heals, totals.heals),
            !.attacks_in_share =
                ShareFraction(ps[key].attacks_in_num, totals.attacks_in),
            !.taken_damage_share =
                ShareFraction(ps[key].total_damage_taken, totals.damage_in),
            !.damage_share = ShareFraction(ps[key].total_damage, totals.damage_out)]]

CreateOverview ==
    LET combat_duration == end_time - start_time
        rows == OverviewRows(1, combat_duration, players, ZeroTotals)
    IN /\ raised' = rows.raised
       /\ players' = IF rows.raised # NONE THEN rows.players
                     ELSE OverviewShares(rows.players, rows.totals)
       /\ lastOp' = "create_overview"
       /\ UNCHANGED <<detectVars, checkVars, treeVars, graphVars, gtVars>>

(***************************************************************************)
(* Combat.analyze_players (combat.py 261-334).                             *)
(***************************************************************************)
KeepsPlayerMutTruthyEvents(player) ==
    /\ player.combat_interval # <<>>
    /\ player.events # <<>>
    /\ player.events[1] # <<>>

\* line 274: combat_interval is not None and events is not None
KeepsPlayer(player) == player.combat_interval # <<>> /\ player.events # <<>>

\* lines 272-276
FilterPlayers(ps) == [key \in {k \in DOMAIN ps : KeepsPlayer(ps[k])} |-> ps[key]]

\* lines 278-282
RECURSIVE PlayerTotals(_, _)
PlayerTotals(ps, keys) ==
    IF keys = {} THEN ZeroTotals
    ELSE LET key == CHOOSE k \in keys : TRUE
             rest == PlayerTotals(ps, keys \ {key})
         IN [damage_out |-> rest.damage_out + ps[key].total_damage,
             attacks_in |-> rest.attacks_in + ps[key].attacks_in_num,
             damage_in |-> rest.damage_in + ps[key].total_damage_taken,
             heals |-> rest.heals + ps[key].total_heals]

\* lines 305-322: value / total * 100, 0.0 on ZeroDivisionError
SharePercent(value, total) ==
    IF total = 0 THEN ZeroFloat ELSE Quotient(value * 100, total)

\* lines 324-328: the break leaves the loop over the events only, the loop
\* over the markers goes on
RECURSIVE BuildScan(_, _, _)
BuildScan(i, events, build) ==
    IF i > Len(BUILD_DETECTION_ABILITIES) THEN build
    ELSE LET k == BUILD_DETECTION_ABILITIES[i][1]
             v == BUILD_DETECTION_ABILITIES[i][2]
         IN BuildScan(i + 1, events,
                IF \E j \in 1..Len(events) : Contains(k, events[j]) THEN v ELSE build)

\* lines 330-334
RoundedGraphTime(graph_time) == [i \in 1..Len(graph_time) |-> Round1(graph_time[i])]

\* lines 285-334: one player of the filtered set
AnalyzedPlayer(player, totals) ==
    LET combat_time == player.combat_interval[2] - player.combat_interval[1]
        graph_time == RoundedGraphTime(player.graph_time)
        DPS_data == CumSum(player.DMG_graph_data)
    IN [player EXCEPT
           !.combat_time = combat_time,
           !.DPS = IF combat_time = 0 THEN ZeroFloat
                   ELSE Quotient(player.total_damage, combat_time),
           !.damage_share = SharePercent(player.total_damage, totals.damage_out),
           !.taken_damage_share =
               SharePercent(player.total_damage_taken, totals.damage_in),
           !.attacks_in_share = SharePercent(player.attacks_in_num, totals.attacks_in),
           !.heal_share = SharePercent(player.total_heals, totals.heals),
           !.build = BuildScan(1, player.events[1], player.build),
           !.graph_time = graph_time,
           !.DPS_graph_data =
               [i \in 1..Len(DPS_data) |-> Quotient(DPS_data[i], graph_time[i])]]

AnalyzePlayers ==
    LET kept == FilterPlayers(players)
        totals == PlayerTotals(kept, DOMAIN kept)
    IN /\ players' = [key \in DOMAIN kept |-> AnalyzedPlayer(kept[key], totals)]
       /\ lastOp' = "analyze_players"
       /\ raised' = NONE
       /\ UNCHANGED <<detectVars, checkVars, treeVars, graphVars, gtVars>>

(***************************************************************************)
(* Statistics passes on the trees and player sets of a combat.             *)
(***************************************************************************)
MaxPlayers == 2      \* players of a combat
MaxEvents == 2       \* event names recorded for a player
MaxBucket == 2       \* last graph point of a combat

PlayerId(i) == <<"p" \o ToString(i), "@h" \o ToString(i)>>
PlayerKey(i) == PlayerId(i)[1] \o PlayerId(i)[2]

Damages == {0, 3}
CombatDurations == {-1, 0, 2}
EndTimes == {0, 5}
GraphResolutions == {4, 10, 20}
EventNames == {"Beam Overload", "Torpedo Spread", "Beam Torpedo", "Heal"}

\* the damage per bucket of a log of MaxBucket + 1 graph points
GraphSeries == [1..(MaxBucket + 1) -> {0, 2}]
SampleSeries == [i \in 1..(MaxBucket + 1) |-> (2 * i) % 3]
BucketIntervals == {iv \in (0..MaxBucket) \X (0..MaxBucket) : iv[1] <= iv[2]}

\* rows of the present players, in the order of their slots
RECURSIVE RowsOf(_, _)
RowsOf(n, row) ==
    IF n = 0 THEN <<>>
    ELSE RowsOf(n - 1, row) \o (IF row[n] = <<>> THEN <<>> ELSE <<row[n]>>)

\* full analysis: the trees hold the players' rows, self.players is empty
InitOverview ==
    /\ InitCombat
    /\ InitNoCompare
    /\ InitNoCheck
    /\ damage_in_npc = <<>>
    /\ players = <<>>
    /\ start_time = 0
    /\ end_time \in EndTimes
    /\ graph_resolution = DefaultGraphResolution
    /\ \E n \in 0..MaxPlayers :
          /\ \E out \in [1..n -> Damages \X CombatDurations] :
                damage_out_player =
                    [i \in 1..n |-> [id |-> PlayerId(i), total |-> out[i][1],
                                     combat_duration |-> out[i][2]]]
          /\ \E in \in [1..n -> {<<>>, <<0, 0>>, <<4, 1>>}] :
                damage_in_player =
                    RowsOf(n, [i \in 1..n |->
                        IF in[i] = <<>> THEN <<>>
                        ELSE [id |-> PlayerId(i), total |-> in[i][1],
                              attacks |-> in[i][2]]])
          /\ \E heal \in [1..n -> {<<>>, <<5>>}] :
                heals_out_player =
                    RowsOf(n, [i \in 1..n |->
                        IF heal[i] = <<>> THEN <<>>
                        ELSE [id |-> PlayerId(i), total |-> heal[i][1]]])
          /\ overview_graphs = [h \in {PlayerId(i)[2] : i \in 1..n} |-> SampleSeries]
          /\ overview_graph_intervals =
                [h \in {PlayerId(i)[2] : i \in 1..n} |-> <<0, 1>>]

\* a player as the log reader leaves it: totals, combat interval, events and graphs
ParsedPlayer(i, damage, taken, heals, interval, events) ==
    [OverviewTableRow(PlayerId(i)[1], PlayerId(i)[2]) EXCEPT
        !.total_damage = damage,
        !.total_damage_taken = taken[1],
        !.attacks_in_num = taken[2],
        !.total_heals = heals,
        !.combat_interval = interval,
        !.events = events]

\* shallow analysis: self.players filled by the log reader, no trees
InitParsedTotals ==
    /\ InitCombat
    /\ InitNoCompare
    /\ InitNoCheck
    /\ InitNoTrees
    /\ damage_in_npc = <<>>
    /\ graph_resolution = DefaultGraphResolution
    /\ overview_graphs = <<>>
    /\ overview_graph_intervals = <<>>
    /\ \E n \in 1..MaxPlayers :
          \E v \in [1..n -> Damages \X {<<0, 0>>, <<4, 1>>} \X {0, 5}] :
             players = [key \in {PlayerKey(i) : i \in 1..n} |->
                          LET i == CHOOSE j \in 1..n : PlayerKey(j) = key
                          IN ParsedPlayer(i, v[i][1], v[i][2], v[i][3],
                                          <<0, 3>>, << <<"Heal">> >>)]

InitStats == InitOverview \/ InitParsedTotals

NextStats == CreateOverview \/ AnalyzePlayers

SpecStats == InitStats /\ [][NextStats]_vars

\* shallow analysis of two players: the first with every combat interval and
\* event list, the second absent, without combat interval, or complete
InitParsedEvents ==
    /\ InitCombat
    /\ InitNoCompare
    /\ InitNoCheck
    /\ InitNoTrees
    /\ damage_in_npc = <<>>
    /\ graph_resolution = DefaultGraphResolution
    /\ overview_graphs = <<>>
    /\ overview_graph_intervals = <<>>
    /\ \E interval \in {<<>>, <<0, 0>>, <<1, 3>>} :
       \E events \in {<<>>} \cup {<<l>> : l \in SeqsOf(EventNames, 0, MaxEvents)} :
       \E others \in {<<>>,
                      PlayerKey(2) :> ParsedPlayer(2, 3, <<4, 1>>, 0, <<>>,
                                                   << <<"Heal">> >>),
                      PlayerKey(2) :> ParsedPlayer(2, 3, <<4, 1>>, 0, <<0, 3>>,
                                                   << <<"Torpedo Spread">> >>)} :
          players = (PlayerKey(1) :> ParsedPlayer(1, 3, <<0, 0>>, 5, interval, events))
                    @@ others

SpecAnalyze == InitParsedEvents /\ [][AnalyzePlayers]_vars

\* one player with its graph: every bucket interval of the log, every series
InitGraphs ==
    /\ InitCombat
    /\ InitNoCompare
    /\ InitNoCheck
    /\ InitNoTrees
    /\ damage_in_npc = <<>>
    /\ graph_resolution \in GraphResolutions
    /\ overview_graphs \in [{PlayerId(1)[2]} -> GraphSeries]
    /\ overview_graph_intervals \in [{PlayerId(1)[2]} -> BucketIntervals]
    /\ players = (PlayerKey(1) :>
                     ParsedPlayer(1, 3, <<0, 0>>, 5, <<0, 3>>, << <<"Heal">> >>))

NextGraphs == CreateOverviewGraphs \/ AnalyzePlayers

SpecGraphs == InitGraphs /\ [][NextGraphs]_vars

(***************************************************************************)
(* Properties of the statistics passes.                                    *)
(***************************************************************************)
RECURSIVE SumOver(_, _)
SumOver(f, keys) ==
    IF keys = {} THEN 0
    ELSE LET k == CHOOSE x \in keys : TRUE IN f[k] + SumOver(f, keys \ {k})

TotalOf(f) == SumOver(f, DOMAIN f)

TotalDamage == TotalOf([k \in DOMAIN players |-> players[k].total_damage])
TotalDamageTaken == TotalOf([k \in DOMAIN players |-> players[k].total_damage_taken])
TotalAttacksIn == TotalOf([k \in DOMAIN players |-> players[k].attacks_in_num])
TotalHeals == TotalOf([k \in DOMAIN players |-> players[k].total_heals])

\* C6: after create_overview and after analyze_players, each of the four
\* share metrics of every player is 0.0 when the total of its quantity over
\* the players is 0, and no share is a division by zero; the share
\* computation raises nothing (the only exception of a pass is the division
\* by the combat duration of line 152).
C6_ZeroTotalZeroShare ==
    /\ (lastOp \in {"create_overview", "analyze_players"} /\ raised = NONE)
       => \A k \in DOMAIN players :
             /\ TotalDamage = 0 => players[k].damage_share = ZeroFloat
             /\ TotalDamageTaken = 0 => players[k].taken_damage_share = ZeroFloat
             /\ TotalAttacksIn = 0 => players[k].attacks_in_share = ZeroFloat
             /\ TotalHeals = 0 => players[k].heal_share = ZeroFloat
             /\ players[k].damage_share.den # 0
             /\ players[k].taken_damage_share.den # 0
             /\ players[k].attacks_in_share.den # 0
             /\ players[k].heal_share.den # 0
    /\ raised # NONE => (lastOp = "create_overview" /\ end_time - start_time = 0)

C6_Witness ==
    /\ lastOp = "create_overview"
    /\ raised = NONE
    /\ Cardinality(DOMAIN players) = 2
    /\ TotalHeals = 0
    /\ TotalAttacksIn = 0
    /\ TotalDamage > 0
    /\ \A k \in DOMAIN players : players[k].heal_share = ZeroFloat

\* C7 as claimed: after analyze_players every remaining player has a non-null
\* combat interval and a non-empty event list.
C7_RemainingHaveEvents ==
    lastOp = "analyze_players"
    => \A k \in DOMAIN players :
          /\ players[k].combat_interval # <<>>
          /\ players[k].events # <<>>
          /\ players[k].events[1] # <<>>

\* C7 as amended: analyze_players keeps exactly the players whose combat
\* interval and event list are both not None (the list may be empty) and
\* removes every other player from the mapping.
C7_FilterByNone ==
    [][lastOp' = "analyze_players"
       => /\ DOMAIN players' =
                {k \in DOMAIN players :
                    players[k].combat_interval # <<>> /\ players[k].events # <<>>}
          /\ \A k \in DOMAIN players' :
                /\ players'[k].combat_interval # <<>>
                /\ players'[k].events # <<>>]_vars

C7_Witness ==
    /\ lastOp = "analyze_players"
    /\ PlayerKey(1) \in DOMAIN players
    /\ players[PlayerKey(1)].events = << <<>> >>
    /\ PlayerKey(2) \notin DOMAIN players

\* label of the first marker, in table order, found in an event name
FirstMatchLabel(events) ==
    LET hits == {i \in 1..Len(BUILD_DETECTION_ABILITIES) :
                    \E j \in 1..Len(events) :
                       Contains(BUILD_DETECTION_ABILITIES[i][1], events[j])}
    IN IF hits = {} THEN NONE
       ELSE BUILD_DETECTION_ABILITIES[CHOOSE i \in hits : \A j \in hits : i <= j][2]

\* C8: after analyze_players a player's build is the label of the first
\* marker, in the table's scan order, that occurs in one of the player's
\* event names, and stays unset when no marker occurs.
C8_BuildIsFirstMatch ==
    lastOp = "analyze_players"
    => \A k \in DOMAIN players :
          players[k].build = FirstMatchLabel(players[k].events[1])

RECURSIVE SeriesSum(_, _, _)
SeriesSum(series, lo, hi) ==
    IF hi < lo THEN 0 ELSE series[hi] + SeriesSum(series, lo, hi - 1)

\* C9: graph slicing over the bucket interval [a, b] gives graph_time of
\* b - a + 1 points from resolution * (a + 1) to resolution * (b + 1), and
\* damage and DPS series of that length with DPS[i] the cumulative damage
\* of the interval's first i buckets over graph_time[i] - resolution * a.
C9_GraphSlicing ==
    lastOp = "create_overview_graphs"
    => \A k \in DOMAIN players :
          LET player == players[k]
              a == overview_graph_intervals[player.handle][1]
              b == overview_graph_intervals[player.handle][2]
              series == overview_graphs[player.handle]
              n == b - a + 1
          IN /\ Len(player.graph_time) = n
             /\ Len(player.DMG_graph_data) = n
             /\ Len(player.DPS_graph_data) = n
             /\ player.graph_time[1] = graph_resolution * (a + 1)
             /\ player.graph_time[n] = graph_resolution * (b + 1)
             /\ \A i \in 1..n :
                   /\ player.graph_time[i] = graph_resolution * (a + i)
                   /\ player.DMG_graph_data[i] = series[a + i]
                   /\ player.DPS_graph_data[i] =
                         Quotient(SeriesSum(series, a + 1, a + i),
                                  player.graph_time[i] - graph_resolution * a)

C9_Witness ==
    /\ lastOp = "create_overview_graphs"
    /\ overview_graph_intervals[PlayerId(1)[2]] = <<1, 2>>
    /\ Len(players[PlayerKey(1)].graph_time) = 2
    /\ players[PlayerKey(1)].DPS_graph_data[2].num > 0

\* C10: every divisor of a dpsGraphData entry is strictly positive, after
\* graph slicing and after analyze_players.
C10_DivisorsPositive ==
    \A k \in DOMAIN players :
       \A i \in 1..Len(players[k].DPS_graph_data) :
          players[k].DPS_graph_data[i].den > 0

(***************************************************************************)
(* Combat.__gt__ (combat.py 491-508).  An operand that is a Combat is the  *)
(* record [class |-> "Combat", end_time |-> e], e being <<>> for None and  *)
(* <<t>> for the datetime t; any other operand is [class |-> its class].   *)
(***************************************************************************)
MaxEndTime == 6      \* latest end time of a combat

\* Combat.date_time (lines 475-478)
date_time(combat) == combat.end_time

\* isinstance(x, datetime) for x a datetime or None
IsDatetime(x) == x # <<>>

Returned(value) == [raised |-> NONE, value |-> value]
Raised(exception) == [raised |-> exception, value |-> NONE]

\* line 500: datetime > x; a datetime does not order against None
DatetimeGreater(x, y) ==
    IF ~IsDatetime(y) THEN Raised("TypeError")
    ELSE Returned(IF x[1] > y[1] THEN "True" ELSE "False")

\* lines 492-508; falling off the end returns None
GreaterThan(self, other) ==
    IF other.class # "Combat" THEN Raised("TypeError")
    ELSE IF IsDatetime(date_time(self)) /\ IsDatetime(date_time(self))
    THEN DatetimeGreater(date_time(self), date_time(other))
    ELSE IF ~IsDatetime(date_time(self)) /\ IsDatetime(date_time(self))
    THEN Returned("False")
    ELSE IF IsDatetime(date_time(self)) /\ ~IsDatetime(date_time(other))
    THEN Returned("True")
    ELSE Returned("None")

Compare ==
    /\ gt_outcome' = GreaterThan(gt_self, gt_other)
    /\ raised' = gt_outcome'.raised
    /\ lastOp' = "__gt__"
    /\ UNCHANGED <<detectVars, checkVars, statsVars, gt_self, gt_other>>

OptionalEndTimes == {<<>>} \cup {<<t>> : t \in 0..MaxEndTime}
Combats == {[class |-> "Combat", end_time |-> e] : e \in OptionalEndTimes}
OtherOperands == Combats \cup {[class |-> "str"], [class |-> "NoneType"]}

InitCompare ==
    /\ InitCombat
    /\ InitNoCheck
    /\ InitNoStats
    /\ damage_in_npc = <<>>
    /\ gt_self \in Combats
    /\ gt_other \in OtherOperands
    /\ gt_outcome = <<>>

SpecCompare == InitCompare /\ [][Compare]_vars

\* C11: a comparison self > other raises only when other is not a Combat;
\* for two Combats, whatever their end times, it raises nothing.
C11_RaisesOnlyOnNonCombat ==
    (lastOp = "__gt__" /\ raised # NONE) => gt_other.class # "Combat"

\* C12: after create_overview no player whose row in the damage-dealt
\* tree has a combat duration <= 0 is a key of the players mapping.
C12_NoPlayerWithoutCombatTime ==
    lastOp = "create_overview"
    => \A i \in 1..Len(damage_out_player) :
          damage_out_player[i].combat_duration <= 0
          => (damage_out_player[i].id[1] \o damage_out_player[i].id[2])
                \notin DOMAIN players

C12_Witness ==
    /\ lastOp = "create_overview"
    /\ raised = NONE
    /\ Len(damage_out_player) = 2
    /\ damage_out_player[1].combat_duration < 0
    /\ damage_out_player[2].combat_duration > 0
    /\ DOMAIN players = {PlayerKey(2)}

\* levels of a table entry whose check succeeds on the observed entities
PassingLevels(check, levels) ==
    {i \in 1..Len(levels) :
        RunCheck(check, levels[i][2], Critters(damage_in_npc)).success}

LastOf(S) == CHOOSE i \in S : \A j \in S : j <= i

\* C13: after detect_map on a map identified without a fixed difficulty,
\* difficulty is the last passing level of the hull-damage stage if one
\* passes, otherwise the last passing level of the death-count stage,
\* otherwise its value before the run; the detection info holds the one
\* existence result followed by one result per level of the death-count and
\* then of the hull-damage table, each tagged with its level's name.
C13_LastPassingLevelWins ==
    (/\ lastOp = "detect_map"
     /\ MapIdentificators(damage_in_npc) # {}
     /\ ObservedNames \cap FixedNames = {})
    => LET deaths == ItemsOrEmpty(MAP_DIFFICULTY_ENTITY_DEATH_COUNTS, map)
           hulls == ItemsOrEmpty(MAP_DIFFICULTY_ENTITY_HULL_COUNTS, map)
           deathsPass == PassingLevels("deaths", deaths)
           hullsPass == PassingLevels("damage", hulls)
       IN /\ difficulty =
                IF hullsPass # {} THEN hulls[LastOf(hullsPass)][1]
                ELSE IF deathsPass # {} THEN deaths[LastOf(deathsPass)][1]
                ELSE prev_difficulty
          /\ Len(detection_info) = 1 + Len(deaths) + Len(hulls)
          /\ detection_info[1].step = "existence"
          /\ detection_info[1].success = TRUE
          /\ \A i \in 1..Len(deaths) :
                /\ detection_info[1 + i].difficulty = deaths[i][1]
                /\ detection_info[1 + i].success = (i \in deathsPass)
                /\ detection_info[1 + i].step \in {"deaths", "existence"}
          /\ \A i \in 1..Len(hulls) :
                /\ detection_info[1 + Len(deaths) + i].difficulty = hulls[i][1]
                /\ detection_info[1 + Len(deaths) + i].success = (i \in hullsPass)
                /\ detection_info[1 + Len(deaths) + i].step = "damage"

C13_Witness ==
    /\ lastOp = "detect_map"
    /\ map = "MapA"
    /\ ObservedNames \cap FixedNames = {}
    /\ prev_difficulty = "Normal"
    /\ difficulty = "Elite"
    /\ Len(detection_info) = 6
    /\ detection_info[2].success = FALSE
    /\ detection_info[3].success = TRUE
    /\ detection_info[4].success = TRUE
    /\ detection_info[5].success = FALSE
    /\ detection_info[6].success = FALSE

====
